---- MODULE Spec2Model ----
(***************************************************************************)
(* fastbinning: non-uniform binning (Cadenas & Megson) over float64        *)
(* boundaries.  New validates the boundaries and runs the precalculation   *)
(* (uniform bin width, histogram sweep, cumulative histogram); Search      *)
(* classifies a value with the precalculated arrays.                       *)
(*                                                                         *)
(* float64 is modelled as a binary floating-point format with a            *)
(* Precision-bit significand, gradual underflow and round-to-nearest-even, *)
(* the arithmetic of IEEE 754 that Go's float64 has with 53 bits.  A float *)
(* is held as an integer count of the format's smallest subnormal (a       *)
(* "unit"); 1.0 is One units.  Only finite, non-negative values far from   *)
(* overflow are drawn: NaN and the infinities are outside the model.       *)
(*                                                                         *)
(* Go slices are 0-indexed; At(s, i) reads s[i] of the source.             *)
(***************************************************************************)
EXTENDS Integers, Sequences, FiniteSets, TLC

VARIABLES
    input,             \* the boundaries argument handed to New
    npc,               \* where New is: "none" (never called), "start", "sweep",
                       \*   "returned", "panicked", "diverged"
    err,               \* New's error result: <<>> is nil, <<e>> an error
    retBin,            \* TRUE iff New returned a non-nil *Bin
    bin,               \* the Bin value the program holds
    uniformBinNumber,  \* precalculation's local
    lowestBound,       \* precalculation's local
    j,                 \* index of the boundary the sweep's outer loop is at
    advances,          \* iterations of the sweep's inner loop so far
    goroutines,        \* the goroutines that call Search / Boundary on bin
    callers            \* each goroutine's call: its position and locals

vars == <<input, npc, err, retBin, bin, uniformBinNumber, lowestBound, j,
          advances, goroutines, callers>>

(***************************************************************************)
(* Bounds of the model                                                     *)
(***************************************************************************)
Precision == 3        \* significand bits of the modelled float format
MaxUnits == 16        \* largest float drawn as an input, in units
MaxLen == 6           \* most boundaries of a strictly increasing input
MaxUnsortedLen == 3   \* longest input drawn without regard to order

Callers == {"g1", "g2"}

(***************************************************************************)
(* float64 arithmetic                                                      *)
(***************************************************************************)
\* float64(1), in units: the smallest normal number of the format.
One == 2^(Precision - 1)

\* The integer nearest to num/den, ties to the even one (num >= 0, den > 0).
RoundHalfEven(num, den) ==
    LET q == num \div den
        r == num % den
    IN  IF 2 * r > den \/ (2 * r = den /\ q % 2 = 1) THEN q + 1 ELSE q

\* The exponent of num/den: the least e >= 0 with num/den < 2^(Precision+e).
RECURSIVE Exponent(_, _, _)
Exponent(num, den, e) ==
    IF num < (2^(Precision + e)) * den THEN e ELSE Exponent(num, den, e + 1)

\* The float nearest to the real num/den (in units), round-to-nearest-even.
Round(num, den) ==
    LET e == Exponent(num, den, 0)
    IN  RoundHalfEven(num, den * (2^e)) * (2^e)

FAdd(a, b) == Round(a + b, 1)
FSub(a, b) == Round(a - b, 1)
FDiv(a, b) == Round(a * One, b)
\* float64(n) of an int n >= 0
FromInt(n) == Round(n * One, 1)
\* int(x) of a float x >= 0: truncation
Trunc(x) == x \div One

Floats == {n \in 0..MaxUnits : Round(n, 1) = n}

(***************************************************************************)
(* Inputs                                                                  *)
(***************************************************************************)
At(s, i) == s[i + 1]

RECURSIVE SetToSortedSeq(_)
SetToSortedSeq(S) ==
    IF S = {} THEN <<>>
    ELSE LET x == CHOOSE y \in S : \A z \in S : y <= z
         IN  <<x>> \o SetToSortedSeq(S \ {x})

SortedInputs ==
    {SetToSortedSeq(S) : S \in {T \in SUBSET Floats :
                                   Cardinality(T) >= 2 /\ Cardinality(T) <= MaxLen}}

UnsortedInputs == UNION {[1..n -> Floats] : n \in 2..MaxUnsortedLen}

Inputs == SortedInputs \cup UnsortedInputs

\* Inputs on which two goroutines call concurrently.
ConcurrentInputs ==
    {<<0, 8, 16>>, <<0, 1, 2, 5>>, <<0, 1, 2, 3, 12>>}

StrictlyIncreasing(bs) ==
    \A i \in 0..(Len(bs) - 2) : At(bs, i) < At(bs, i + 1)

(***************************************************************************)
(* type Bin                                                                *)
(***************************************************************************)
\* The zero value of Bin (var b Bin, new(Bin)).
ZeroBin ==
    [boundaries |-> <<>>, uniformBinWidth |-> 0,
     histogram |-> <<>>, cumulativeHistogram |-> <<>>]

NumBins(b) == Len(b.boundaries) - 1

(***************************************************************************)
(* New: validation                                                         *)
(***************************************************************************)
\* The arguments of the fmt.Errorf call at index i of range boundaries[1:].
ValidationError(bs, i) ==
    [lo |-> At(bs, i), hi |-> At(bs, i + 1), idxLo |-> i - 1, idxHi |-> i]

\* A validation that lets equal neighbours through.
ViolatesStrictOnly(x, y) == x > y

Violates(x, y) == x >= y

\* for i, b := range boundaries[1:]: the first error, or <<>>.
RECURSIVE Validate(_, _)
Validate(bs, i) ==
    IF i > Len(bs) - 2 THEN <<>>
    ELSE IF Violates(At(bs, i), At(bs, i + 1)) THEN <<ValidationError(bs, i)>>
    ELSE Validate(bs, i + 1)

NewReject ==
    /\ npc = "start"
    /\ Validate(input, 0) # <<>>
    /\ err' = Validate(input, 0)
    /\ retBin' = FALSE
    /\ npc' = "returned"
    /\ UNCHANGED <<input, bin, uniformBinNumber, lowestBound, j, advances, goroutines, callers>>

(***************************************************************************)
(* precalculation                                                          *)
(***************************************************************************)
\* Step 1: totalWidth / float64(m)
UniformBinWidth(bs) ==
    LET m == Len(bs) - 1
    IN  FDiv(FSub(At(bs, m), At(bs, 0)), FromInt(m))

\* make([]int, n)
MakeInts(n) == [i \in 1..n |-> 0]

\* bin := &Bin{boundaries: boundaries}; precalculation up to the sweep.
NewAccept ==
    /\ npc = "start"
    /\ Validate(input, 0) = <<>>
    /\ bin' = [boundaries |-> input,
               uniformBinWidth |-> UniformBinWidth(input),
               histogram |-> MakeInts(Len(input) - 1),
               cumulativeHistogram |-> <<>>]
    /\ uniformBinNumber' = 1
    /\ lowestBound' = At(input, 0)
    /\ j' = 1
    /\ advances' = 0
    /\ npc' = "sweep"
    /\ UNCHANGED <<input, err, retBin, goroutines, callers>>

\* A sweep over boundaries[1:m+1], the last boundary included.
SweepLastInclusive(b) == Len(b.boundaries) - 1

\* The last index of range bin.boundaries[1:m].
SweepLast(b) == NumBins(b) - 1

\* for b > lowestBound+bin.uniformBinWidth
Outside(b, x) == x > FAdd(lowestBound, b.uniformBinWidth)

SweepAdvance ==
    /\ npc = "sweep"
    /\ j <= SweepLast(bin)
    /\ Outside(bin, At(bin.boundaries, j))
    /\ FAdd(lowestBound, bin.uniformBinWidth) # lowestBound
    /\ lowestBound' = FAdd(lowestBound, bin.uniformBinWidth)
    /\ uniformBinNumber' = uniformBinNumber + 1
    /\ advances' = advances + 1
    /\ UNCHANGED <<input, npc, err, retBin, bin, j, goroutines, callers>>

\* lowestBound += uniformBinWidth leaves lowestBound as it is: the loop's
\* condition stays true and the loop never exits.
SweepDiverge ==
    /\ npc = "sweep"
    /\ j <= SweepLast(bin)
    /\ Outside(bin, At(bin.boundaries, j))
    /\ FAdd(lowestBound, bin.uniformBinWidth) = lowestBound
    /\ npc' = "diverged"
    /\ UNCHANGED <<input, err, retBin, bin, uniformBinNumber, lowestBound, j,
                   advances, goroutines, callers>>

InRange(s, i) == 0 <= i /\ i < Len(s)

\* bin.histogram[uniformBinNumber-1] += 1
SweepCount ==
    /\ npc = "sweep"
    /\ j <= SweepLast(bin)
    /\ ~Outside(bin, At(bin.boundaries, j))
    /\ InRange(bin.histogram, uniformBinNumber - 1)
    /\ bin' = [bin EXCEPT !.histogram[uniformBinNumber] = @ + 1]
    /\ j' = j + 1
    /\ UNCHANGED <<input, npc, err, retBin, uniformBinNumber, lowestBound,
                   advances, goroutines, callers>>

\* bin.histogram[uniformBinNumber-1]: index out of range
SweepPanic ==
    /\ npc = "sweep"
    /\ j <= SweepLast(bin)
    /\ ~Outside(bin, At(bin.boundaries, j))
    /\ ~InRange(bin.histogram, uniformBinNumber - 1)
    /\ npc' = "panicked"
    /\ UNCHANGED <<input, err, retBin, bin, uniformBinNumber, lowestBound, j,
                   advances, goroutines, callers>>

\* Step 3: cumulativeHistogram[0] = 1; cumulativeHistogram[i+1] = ...[i] + h
CumulativeStart == 1

RECURSIVE CumulativeFrom(_, _, _)
CumulativeFrom(hist, i, acc) ==
    IF i >= Len(hist) THEN acc
    ELSE CumulativeFrom(hist, i + 1, Append(acc, At(acc, i) + At(hist, i)))

Cumulative(hist) == CumulativeFrom(hist, 0, <<CumulativeStart>>)

\* The sweep is over: step 3, and New returns bin, nil.
NewReturn ==
    /\ npc = "sweep"
    /\ j > SweepLast(bin)
    /\ bin' = [bin EXCEPT !.cumulativeHistogram = Cumulative(bin.histogram)]
    /\ err' = <<>>
    /\ retBin' = TRUE
    /\ npc' = "returned"
    /\ UNCHANGED <<input, uniformBinNumber, lowestBound, j, advances, goroutines, callers>>

(***************************************************************************)
(* Search                                                                  *)
(***************************************************************************)
Returned(k) == [kind |-> "return", val |-> k]
Continue == [kind |-> "continue", val |-> 0]
Panic(why) == [kind |-> why, val |-> 0]

\* A guard that lets a zero width through.
UnpreparedNegativeOnly(b) == b.uniformBinWidth < 0

\* if bin.uniformBinWidth <= 0
Unprepared(b) == b.uniformBinWidth <= 0

\* The outer cases with the bin above the last boundary numbered len-1.
SearchOuterLastBin(b, value) ==
    IF b.uniformBinWidth <= 0 THEN Panic("unprepared")
    ELSE IF ~InRange(b.boundaries, 0) THEN Panic("index")
    ELSE IF value < At(b.boundaries, 0) THEN Returned(0)
    ELSE IF value >= At(b.boundaries, Len(b.boundaries) - 1)
         THEN Returned(Len(b.boundaries) - 1)
    ELSE Continue

\* Lines 126-134: the guard and the two outer cases.
SearchOuter(b, value) ==
    IF Unprepared(b) THEN Panic("unprepared")
    ELSE IF ~InRange(b.boundaries, 0) THEN Panic("index")
    ELSE IF value < At(b.boundaries, 0) THEN Returned(0)
    ELSE IF value >= At(b.boundaries, Len(b.boundaries) - 1)
         THEN Returned(Len(b.boundaries))
    ELSE Continue

\* int((value-bin.boundaries[0])/bin.uniformBinWidth) + 1
UniformBinNumberOf(b, value) ==
    Trunc(FDiv(FSub(value, At(b.boundaries, 0)), b.uniformBinWidth)) + 1

\* sort.Search(n, f) with f(i) = value < bin.boundaries[r+i], from i, k = 0, n:
\* the smallest index whose f is true; -1 when a read of boundaries is out of range.
RECURSIVE SortSearch(_, _, _, _, _)
SortSearch(b, value, r, i, k) ==
    IF i < k
    THEN LET mid == (i + k) \div 2
         IN  IF ~InRange(b.boundaries, r + mid) THEN -1
             ELSE IF ~(value < At(b.boundaries, r + mid))
                  THEN SortSearch(b, value, r, mid + 1, k)
                  ELSE SortSearch(b, value, r, i, mid)
    ELSE i

\* Lines 144-165: switch h
SearchSwitch(b, value, h, r) ==
    CASE h = 0 -> Returned(r)
      [] h = 1 ->
            IF ~InRange(b.boundaries, r) THEN Panic("index")
            ELSE IF value >= At(b.boundaries, r) THEN Returned(r + 1)
            ELSE Returned(r)
      [] h = 2 ->
            IF ~InRange(b.boundaries, r + 1) THEN Panic("index")
            ELSE IF value >= At(b.boundaries, r + 1) THEN Returned(r + 2)
            ELSE IF ~InRange(b.boundaries, r) THEN Panic("index")
            ELSE IF value < At(b.boundaries, r) THEN Returned(r)
            ELSE Returned(r + 1)
      [] OTHER ->
            LET i == SortSearch(b, value, r, 0, h)
            IN  IF i < 0 THEN Panic("index") ELSE Returned(r + i)

\* A Search that clears the histogram cell counts it has read.
BinAfterSearchClearing(b) == [b EXCEPT !.histogram = [i \in 1..Len(b.histogram) |-> 0]]

\* Search reads its receiver and writes none of its fields.
BinAfterSearch(b) == b

IdleCaller == [pc |-> "idle", op |-> "", arg |-> 0, u |-> 0, h |-> 0, r |-> 0,
               result |-> 0, panic |-> ""]

\* The program holds a Bin to call on: a zero value, or the one New returned.
HoldsBin == npc = "none" \/ (npc = "returned" /\ retBin)

Finish(c, op, arg, out) ==
    IF out.kind = "return"
    THEN [callers EXCEPT ![c] = [IdleCaller EXCEPT !.pc = "done", !.op = op,
                                   !.arg = arg, !.result = out.val]]
    ELSE [callers EXCEPT ![c] = [IdleCaller EXCEPT !.pc = "panicked", !.op = op,
                                   !.arg = arg, !.panic = out.kind]]

NewLocals == <<input, npc, err, retBin, uniformBinNumber, lowestBound, j, advances>>

\* A goroutine calls bin.Search(value) and runs lines 126-134.
SearchEnter(c) ==
    /\ c \in goroutines
    /\ HoldsBin
    /\ callers[c].pc = "idle"
    /\ \E value \in Floats :
          LET out == SearchOuter(bin, value)
          IN  callers' = IF out.kind = "continue"
                         THEN [callers EXCEPT ![c] =
                                  [IdleCaller EXCEPT !.pc = "locate", !.op = "Search",
                                                     !.arg = value]]
                         ELSE Finish(c, "Search", value, out)
    /\ bin' = BinAfterSearch(bin)
    /\ UNCHANGED <<NewLocals, goroutines>>

\* Lines 137-142: uniformBinNumber, h and r.
SearchLocate(c) ==
    /\ c \in goroutines
    /\ callers[c].pc = "locate"
    /\ LET u == UniformBinNumberOf(bin, callers[c].arg)
       IN  callers' =
             IF InRange(bin.histogram, u - 1) /\ InRange(bin.cumulativeHistogram, u - 1)
             THEN [callers EXCEPT ![c].pc = "switch", ![c].u = u,
                                  ![c].h = At(bin.histogram, u - 1),
                                  ![c].r = At(bin.cumulativeHistogram, u - 1)]
             ELSE [callers EXCEPT ![c].pc = "panicked", ![c].u = u,
                                  ![c].panic = "index"]
    /\ bin' = BinAfterSearch(bin)
    /\ UNCHANGED <<NewLocals, goroutines>>

\* Lines 144-165: the switch and the return.
SearchReturn(c) ==
    /\ c \in goroutines
    /\ callers[c].pc = "switch"
    /\ LET out == SearchSwitch(bin, callers[c].arg, callers[c].h, callers[c].r)
       IN  callers' =
             IF out.kind = "return"
             THEN [callers EXCEPT ![c].pc = "done", ![c].result = out.val]
             ELSE [callers EXCEPT ![c].pc = "panicked", ![c].panic = out.kind]
    /\ bin' = BinAfterSearch(bin)
    /\ UNCHANGED <<NewLocals, goroutines>>

(***************************************************************************)
(* Boundary                                                                *)
(***************************************************************************)
BoundaryOf(b, i) ==
    IF InRange(b.boundaries, i) THEN Returned(At(b.boundaries, i)) ELSE Panic("index")

BoundaryCall(c) ==
    /\ c \in goroutines
    /\ HoldsBin
    /\ callers[c].pc = "idle"
    /\ \E i \in 0..MaxLen : callers' = Finish(c, "Boundary", i, BoundaryOf(bin, i))
    /\ UNCHANGED <<NewLocals, bin, goroutines>>

\* The caller has its result and may call again.
CallerDone(c) ==
    /\ c \in goroutines
    /\ callers[c].pc = "done"
    /\ callers' = [callers EXCEPT ![c] = IdleCaller]
    /\ UNCHANGED <<NewLocals, bin, goroutines>>

(***************************************************************************)
(* The program                                                             *)
(***************************************************************************)
InitLocals ==
    /\ err = <<>>
    /\ retBin = FALSE
    /\ bin = ZeroBin
    /\ uniformBinNumber = 0
    /\ lowestBound = 0
    /\ j = 0
    /\ advances = 0
    /\ callers = [c \in Callers |-> IdleCaller]

\* One goroutine calls New(input) and then uses the Bin.
InitNew ==
    /\ input \in Inputs
    /\ npc = "start"
    /\ goroutines = {"g1"}
    /\ InitLocals

\* New(input), and then two goroutines use the Bin concurrently.
InitConcurrent ==
    /\ input \in ConcurrentInputs
    /\ npc = "start"
    /\ goroutines = Callers
    /\ InitLocals

\* var bin Bin: New is never called.
InitZero ==
    /\ input = <<>>
    /\ npc = "none"
    /\ goroutines = {"g1"}
    /\ InitLocals

Init == InitNew \/ InitConcurrent \/ InitZero

Next ==
    \/ NewReject
    \/ NewAccept
    \/ SweepAdvance
    \/ SweepDiverge
    \/ SweepCount
    \/ SweepPanic
    \/ NewReturn
    \/ \E c \in Callers : SearchEnter(c)
    \/ \E c \in Callers : SearchLocate(c)
    \/ \E c \in Callers : SearchReturn(c)
    \/ \E c \in Callers : BoundaryCall(c)
    \/ \E c \in Callers : CallerDone(c)

Spec == Init /\ [][Next]_vars

(***************************************************************************)
(* Properties                                                              *)
(***************************************************************************)
FromNew == npc = "returned" /\ retBin

SearchDone(c) == c \in goroutines /\ callers[c].op = "Search" /\ callers[c].pc = "done"

\* The number of boundaries <= value.
Count(bs, value) == Cardinality({i \in 0..(Len(bs) - 1) : At(bs, i) <= value})

\* The first adjacent pair that is not increasing.
FirstOffending(bs) ==
    CHOOSE i \in 0..(Len(bs) - 2) :
        /\ At(bs, i) >= At(bs, i + 1)
        /\ \A k \in 0..(i - 1) : At(bs, k) < At(bs, k + 1)

\* C1: on a Bin returned by New, whenever Search(v) returns, it returns the
\* number of boundaries <= v (0 below boundaries[0], len(boundaries) from
\* boundaries[m] on, otherwise the n with boundaries[n-1] <= v < boundaries[n]).
C1_SearchCountsBoundaries ==
    FromNew =>
        \A c \in Callers :
            SearchDone(c) => callers[c].result = Count(bin.boundaries, callers[c].arg)

C3_ErrorIffNotIncreasing ==
    /\ npc = "returned" =>
         /\ (err # <<>>) <=> ~StrictlyIncreasing(input)
         /\ err # <<>> => (~retBin /\ bin = ZeroBin)
         /\ err = <<>> =>
              /\ retBin
              /\ bin.boundaries = input
              /\ j = NumBins(bin)
              /\ Len(bin.histogram) = NumBins(bin)
              /\ Len(bin.cumulativeHistogram) = NumBins(bin) + 1
    /\ npc \in {"sweep", "panicked", "diverged"} => StrictlyIncreasing(input)

\* New has rejected an input whose first pair is in order and whose second is not.
C3_Witness ==
    /\ npc = "returned"
    /\ err # <<>>
    /\ Len(input) = 3
    /\ At(input, 0) < At(input, 1)
    /\ At(input, 1) >= At(input, 2)

\* C4: the error of a rejected input reports the first offending pair: the
\* values boundaries[j], boundaries[j+1] and their indices j and j+1.
C4_ErrorNamesFirstPair ==
    (npc = "returned" /\ err # <<>>) =>
        LET k == FirstOffending(input)
            e == err[1]
        IN  /\ e.lo = At(input, k)
            /\ e.hi = At(input, k + 1)
            /\ e.idxLo = k
            /\ e.idxHi = k + 1

\* C5: on the Bin New returns, histogram has length m and cumulativeHistogram
\* length m+1, cumulativeHistogram[0] = 1, cumulativeHistogram[i+1] =
\* cumulativeHistogram[i] + histogram[i], cumulativeHistogram is non-decreasing,
\* cumulativeHistogram[m] - cumulativeHistogram[0] = m-1, and uniformBinWidth > 0.
C5_PrecalculatedArrays ==
    FromNew =>
        LET m == NumBins(bin)
            cum == bin.cumulativeHistogram
        IN  /\ Len(bin.histogram) = m
            /\ Len(cum) = m + 1
            /\ At(cum, 0) = 1
            /\ \A i \in 0..(m - 1) :
                  /\ At(cum, i + 1) = At(cum, i) + At(bin.histogram, i)
                  /\ At(cum, i) <= At(cum, i + 1)
            /\ At(cum, m) - At(cum, 0) = m - 1
            /\ bin.uniformBinWidth > 0

\* New has returned a Bin of at least 4 bins whose sweep advanced and put two
\* boundaries into one uniform bin.
C5_Witness ==
    /\ FromNew
    /\ NumBins(bin) >= 4
    /\ advances >= 1
    /\ \E i \in 0..(NumBins(bin) - 1) : At(bin.histogram, i) >= 2

\* The whole of Search in one step, on one value of the Bin.
SequentialSearch(b, value) ==
    LET out == SearchOuter(b, value)
        u == UniformBinNumberOf(b, value)
    IN  IF out.kind # "continue" THEN out
        ELSE IF ~(InRange(b.histogram, u - 1) /\ InRange(b.cumulativeHistogram, u - 1))
             THEN Panic("index")
        ELSE SearchSwitch(b, value, At(b.histogram, u - 1),
                          At(b.cumulativeHistogram, u - 1))

\* C6: every step of a Search or Boundary call leaves the Bin's boundaries,
\* uniformBinWidth, histogram and cumulativeHistogram as they are, and a call
\* that ends, however interleaved with other calls, ends as one sequential
\* Search of its value does.
C6_SearchOnlyReads ==
    /\ [][callers' # callers => bin' = bin]_vars
    /\ [](\A c \in Callers :
             (callers[c].op = "Search" /\ callers[c].pc \in {"done", "panicked"}) =>
                LET out == SequentialSearch(bin, callers[c].arg)
                IN  IF callers[c].pc = "done"
                    THEN out = Returned(callers[c].result)
                    ELSE out = Panic(callers[c].panic))

\* Two goroutines are inside Search on the same Bin at once, one past its
\* histogram reads and one with its result.
C6_Witness ==
    /\ FromNew
    /\ callers["g1"].op = "Search" /\ callers["g1"].pc = "switch"
    /\ callers["g1"].h >= 1
    /\ callers["g2"].op = "Search" /\ callers["g2"].pc = "done"
    /\ callers["g2"].result \in 1..NumBins(bin)

\* C7: Search on a zero-valued Bin ends in the panic "Bin needs to be created
\* with New" and never in a result; a Bin returned by New has uniformBinWidth > 0
\* and Search on it never raises that panic.
C7_UnpreparedPanics ==
    /\ npc = "none" =>
         \A c \in Callers :
            (callers[c].op = "Search" /\ callers[c].pc # "idle") =>
                (callers[c].pc = "panicked" /\ callers[c].panic = "unprepared")
    /\ FromNew =>
         /\ bin.uniformBinWidth > 0
         /\ \A c \in Callers : callers[c].panic # "unprepared"

\* Search on a zero-valued Bin has panicked.
C7_Witness ==
    /\ npc = "none"
    /\ bin = ZeroBin
    /\ callers["g1"].op = "Search"
    /\ callers["g1"].pc = "panicked"

\* C8: histogram[i] is the number of interior boundaries in the half-open
\* uniform cell [boundaries[0] + i*uniformBinWidth,
\* boundaries[0] + (i+1)*uniformBinWidth), boundaries on a cell edge included.
C8_HistogramCountsHalfOpenCells ==
    FromNew =>
        LET m == NumBins(bin)
            b0 == At(bin.boundaries, 0)
            w == bin.uniformBinWidth
        IN  \A i \in 0..(m - 1) :
                At(bin.histogram, i) =
                    Cardinality({k \in 1..(m - 1) :
                                    /\ b0 + i * w <= At(bin.boundaries, k)
                                    /\ At(bin.boundaries, k) < b0 + (i + 1) * w})

\* C9: the sweep terminates and its inner loop runs at most m-1 times in all.
C9_SweepLinear ==
    /\ npc # "diverged"
    /\ npc \in {"sweep", "panicked", "returned"} => advances <= Len(input) - 2

\* C10: New and Search never index a slice out of range on a strictly
\* increasing input.
C10_NoIndexOutOfRange ==
    /\ npc # "panicked"
    /\ FromNew =>
         \A c \in Callers : callers[c].op = "Search" => callers[c].panic # "index"

====
